---- MODULE Spec2Model ----
\* A model of qllm/model_quantization_base.py: ModelQuantizationBase.run and the
\* model surgery it drives (pack_model, repack_to_new_mode, eval_model,
\* export_onnx).  run() is followed stage by stage through the variable pc.
EXTENDS Integers, Sequences, FiniteSets, TLC

VARIABLES
  args,            \* the configuration object run() receives (run() rewrites some fields)
  has_awq,         \* what has_awq_inference_engine() answers in this environment
  pc,              \* position of run() (or of the repack harness)
  model,           \* the model graph: dotted name -> layer
  device,          \* where the model lives: "cpu" or DEV
  tokenizer,       \* self.tokenizer: <<>> before it is loaded, else <<source>>
  inputs_dataloader, \* local of run(): <<>> while unbound
  quantizers,      \* local of run(): <<>> while unbound, else <<mapping>>
  quant_info,      \* local of run(): <<>> while unbound, else <<mapping>>
  quant_config,    \* local of run(): <<>> while unbound, else <<record>>
  files,           \* what has been written to the filesystem
  warnings,        \* number of logger.warning calls
  error,           \* the exception run() ended with, "" if none
  trace,           \* the stages that ran, in order
  handed,          \* what was handed to the external exporter: <<>> or <<graph>>
  orig,            \* repack harness: the graph right after pack_model
  source           \* which loader ran: "", "quantized" or "pretrained"

vars == <<args, has_awq, pc, model, device, tokenizer, inputs_dataloader,
          quantizers, quant_info, quant_config, files, warnings, error,
          trace, handed, orig, source>>

\* ---------------------------------------------------------------- bounds
\* bit-widths offered to args.wbits
WBitsChoices == {4, 8, 16}
\* per-layer bit-width a mixed-bit configuration file assigns to fc2
MixBits == 8
\* in_features of the two linear layers of the toy graph
InFeatures == 2
\* args.groupsize
GroupSize == 1

\* ---------------------------------------------------------------- Python values
PyNone == [t |-> "NoneType", v |-> "", d |-> {}]
Str(s) == [t |-> "str", v |-> s, d |-> {}]
PosixPath(s) == [t |-> "Path", v |-> s, d |-> {}]
Dict(d) == [t |-> "dict", v |-> "", d |-> d]

\* Python truthiness of a configuration value
Truthy(x) ==
  CASE x.t = "NoneType" -> FALSE
    [] x.t = "str" -> x.v # ""
    [] x.t = "dict" -> x.d # {}
    [] OTHER -> TRUE

\* pathlib.Path.as_posix: the empty path prints as "."
as_posix(p) == Str(IF p.v = "" THEN "." ELSE p.v)

DEV == "cuda"
PackModes == {"GPTQ", "GEMM", "ORT"}

\* ---------------------------------------------------------------- layers
Linear(w, b) ==
  [type |-> "Linear", bits |-> 16, groupsize |-> 0,
   infeatures |-> Len(w), outfeatures |-> 1, bias |-> b,
   weight |-> w, qweight |-> <<>>, scales |-> <<>>, zeros |-> <<>>,
   g_idx |-> <<>>]

Embedding ==
  [type |-> "Embedding", bits |-> 16, groupsize |-> 0,
   infeatures |-> 0, outfeatures |-> 0, bias |-> "None",
   weight |-> <<>>, qweight |-> <<>>, scales |-> <<>>, zeros |-> <<>>,
   g_idx |-> <<>>]

\* constructor of a packed linear layer class: target_layer(bits, groupsize,
\* infeatures, outfeatures, bias); its g_idx buffer starts as i // groupsize
QuantLinear(type, bits, groupsize, infeatures, outfeatures, has_bias) ==
  [type |-> type, bits |-> bits, groupsize |-> groupsize,
   infeatures |-> infeatures, outfeatures |-> outfeatures,
   bias |-> IF has_bias THEN "tensor" ELSE "None",
   weight |-> <<>>, qweight |-> <<>>, scales |-> <<>>, zeros |-> <<>>,
   g_idx |-> [i \in 1..infeatures |-> (i - 1) \div groupsize]]

\* round(w / s) with ties to even, s > 0
RoundDiv(w, s) ==
  LET q == w \div s
      r == w % s
  IN  IF 2 * r < s THEN q
      ELSE IF 2 * r > s THEN q + 1
      ELSE IF q % 2 = 0 THEN q ELSE q + 1

Clamp(x, lo, hi) == IF x < lo THEN lo ELSE IF x > hi THEN hi ELSE x

\* transpose of a matrix given as a sequence of rows
Transpose(m) ==
  IF m = <<>> THEN <<>>
  ELSE [j \in 1..Len(m[1]) |-> [i \in 1..Len(m) |-> m[i][j]]]

\* qlayer.pack_gpu(linear, scales, zeros, g_idx): scales and zeros come as
\* groups x out_features; q = clamp(round(w / scale) + zero, 0, 2^bits - 1)
pack_gpu(qlayer, linear, scales, zeros, g_idx) ==
  LET g == IF g_idx = <<>> THEN qlayer.g_idx ELSE g_idx
      q == [i \in 1..Len(linear.weight) |->
              Clamp(RoundDiv(linear.weight[i], scales[g[i] + 1][1])
                      + zeros[g[i] + 1][1],
                    0, 2 ^ qlayer.bits - 1)]
  IN  [qlayer EXCEPT !.qweight = q, !.scales = scales, !.zeros = zeros,
                     !.g_idx = g, !.bias = linear.bias]

\* qlayer.unpack(): (fp16_weight, scales, zeros), scales and zeros as
\* out_features x groups
unpack(qlayer) ==
  LET w == [i \in 1..Len(qlayer.qweight) |->
              (qlayer.qweight[i] - qlayer.zeros[qlayer.g_idx[i] + 1][1])
                * qlayer.scales[qlayer.g_idx[i] + 1][1]]
  IN  <<w, Transpose(qlayer.scales), Transpose(qlayer.zeros)>>

\* find_layers(model, types): the names of the layers whose type is in types
find_layers(m, types) == {n \in DOMAIN m : m[n].type \in types}

\* select_quant_linear(pack_mode, wbits): the packed layer class of a mode
select_quant_linear(pack_mode, wbits) == pack_mode

\* make_mixbits_quant_linear(model, quantizers, quant_info, target_layer):
\* every layer named in quantizers becomes an empty packed layer of the target
\* class with that layer's own wbits and groupsize
make_mixbits_quant_linear(m, qz, qinfo, target_layer) ==
  [n \in DOMAIN m |->
     IF n \in DOMAIN qz
     THEN QuantLinear(target_layer, qinfo[n].wbits, qinfo[n].groupsize,
                      m[n].infeatures, m[n].outfeatures, m[n].bias # "None")
     ELSE m[n]]

\* ---------------------------------------------------------------- ModelSurgeon
\* the order in which find_layers walks the graph: depth first, children in
\* insertion order
TraversalOrder == <<"embed", "fc1", "fc2">>

TraversalIndex(n) ==
  CHOOSE i \in 1..Len(TraversalOrder) : TraversalOrder[i] = n

\* pack_model with the packed layer class fixed instead of read from args.pack_mode
pack_model_AlwaysGptq(m, qz, a) ==
  LET all_layers == find_layers(m, {"Linear", "ScaledLinear"})
      attention_layers == [n \in DOMAIN qz |-> m[n]]
      qconfig == [zero_point |-> TRUE, q_group_size |-> a.groupsize,
                  w_bit |-> a.wbits, version |-> a.pack_mode]
      qinfo == [k \in DOMAIN qz \cup {"method"} |->
                  IF k = "method" THEN a.method
                  ELSE [wbits |-> qz[k][5], groupsize |-> qz[k][6]]]
      target_layer == select_quant_linear("GPTQ", a.wbits)
      m1 == make_mixbits_quant_linear(m, qz, qinfo, target_layer)
      qlayers == find_layers(m1, {target_layer})
      \* the loop of lines 83-93 stops at the first layer that is no key
      missing == qlayers \ DOMAIN qz
      packed == {n \in qlayers :
                   \A k \in missing : TraversalIndex(n) < TraversalIndex(k)}
      m2 == [n \in DOMAIN m1 |->
               IF n \in packed
               THEN pack_gpu(m1[n], attention_layers[n], qz[n][2], qz[n][3], qz[n][4])
               ELSE m1[n]]
      qz2 == [n \in DOMAIN qz |-> IF n \in packed THEN qz[n][1] ELSE qz[n]]
  IN  IF ~(DOMAIN qz \subseteq all_layers)
      THEN <<m, <<>>, <<>>, qz, "KeyError">>
      ELSE IF missing # {}
      THEN <<m2, <<>>, <<>>, qz2, "KeyError">>
      ELSE <<m2, qinfo, qconfig, qz2, "">>

\* pack_model(model, quantizers, args): <<model, quant_info, quant_config>>,
\* fourth the quantizers mapping as the loop leaves it, fifth the exception
\* raised ("" if none).  Line 73 raises KeyError, before anything is changed,
\* for a key that is not a linear layer of the graph; line 84 raises KeyError
\* for a layer of the target class that is no key, after the layers were
\* replaced and the layers walked before it were packed.
pack_model(m, qz, a) ==
  LET all_layers == find_layers(m, {"Linear", "ScaledLinear"})
      attention_layers == [n \in DOMAIN qz |-> m[n]]
      qconfig == [zero_point |-> TRUE, q_group_size |-> a.groupsize,
                  w_bit |-> a.wbits, version |-> a.pack_mode]
      qinfo == [k \in DOMAIN qz \cup {"method"} |->
                  IF k = "method" THEN a.method
                  ELSE [wbits |-> qz[k][5], groupsize |-> qz[k][6]]]
      target_layer == select_quant_linear(a.pack_mode, a.wbits)
      m1 == make_mixbits_quant_linear(m, qz, qinfo, target_layer)
      qlayers == find_layers(m1, {target_layer})
      \* the loop of lines 83-93 stops at the first layer that is no key
      missing == qlayers \ DOMAIN qz
      packed == {n \in qlayers :
                   \A k \in missing : TraversalIndex(n) < TraversalIndex(k)}
      m2 == [n \in DOMAIN m1 |->
               IF n \in packed
               THEN pack_gpu(m1[n], attention_layers[n], qz[n][2], qz[n][3], qz[n][4])
               ELSE m1[n]]
      qz2 == [n \in DOMAIN qz |-> IF n \in packed THEN qz[n][1] ELSE qz[n]]
  IN  IF ~(DOMAIN qz \subseteq all_layers)
      THEN <<m, <<>>, <<>>, qz, "KeyError">>
      ELSE IF missing # {}
      THEN <<m2, <<>>, <<>>, qz2, "KeyError">>
      ELSE <<m2, qinfo, qconfig, qz2, "">>

\* repack_to_new_mode(model, args, new_pack_mode)
repack_to_new_mode(m, a, new_pack_mode) ==
  LET bits == a.wbits
      groupsize == a.groupsize
      source_layer == select_quant_linear(a.pack_mode, a.wbits)
      target_layer == select_quant_linear(new_pack_mode, a.wbits)
      qlayers == find_layers(m, {source_layer})
      replaced(n) ==
        LET u == unpack(m[n])
            tmp == [m[n] EXCEPT !.weight = u[1]]
            new_module == QuantLinear(target_layer, bits, groupsize,
                                      tmp.infeatures, tmp.outfeatures,
                                      tmp.bias # "None")
        IN  pack_gpu(new_module, tmp, Transpose(u[2]), Transpose(u[3]), <<>>)
  IN  [n \in DOMAIN m |-> IF n \in qlayers THEN replaced(n) ELSE m[n]]

\* the packed layers of a graph, and the classes they belong to
PackedNames(m) == {n \in DOMAIN m : m[n].type \in PackModes}
PackedTypes(m) == {m[n].type : n \in PackedNames(m)}

\* ---------------------------------------------------------------- collaborators
LinearNames == {"fc1", "fc2"}

\* AutoQuantizedModelForCausalLM.from_pretrained: a full-precision toy graph
PretrainedModel ==
  [n \in {"embed"} \cup LinearNames |->
     CASE n = "embed" -> Embedding
       [] n = "fc1" -> Linear([i \in 1..InFeatures |-> 3 - 2 * i], "tensor")
       [] n = "fc2" -> Linear([i \in 1..InFeatures |-> 2 * i + 1], "None")]

NGroups == (InFeatures + GroupSize - 1) \div GroupSize

\* what json.load(open(args.mix_qlayer_conf)) reads: fc2 gets its own bit-width
MixConfFile == {<<"fc2", MixBits>>}

LayerBits(conf, n, a) ==
  IF \E e \in conf : e[1] = n
  THEN (CHOOSE e \in conf : e[1] = n)[2]
  ELSE a.wbits

\* one entry of the mapping quantizer.quantize returns:
\* (quantizer, scale, zero, g_idx, wbits, groupsize)
QuantizerEntry(bits, groupsize, act_order) ==
  <<  <<"Quantizer">>,
      [g \in 1..NGroups |-> <<g>>],
      [g \in 1..NGroups |-> <<2 ^ (bits - 1)>>],
      [i \in 1..InFeatures |->
         IF act_order THEN (InFeatures - i) \div groupsize
         ELSE (i - 1) \div groupsize],
      bits, groupsize >>

\* the mappings quantizer.quantize(model, dataloader, dev) can return
QuantizerOutputs(a) ==
  { [n \in keys |->
       QuantizerEntry(LayerBits(a.mix_qlayer_conf.d, n, a), a.groupsize, ao)] :
    keys \in {LinearNames, {"fc1"}}, ao \in BOOLEAN }

\* AutoQuantizedModelForCausalLM.from_quantized: the graph an earlier run of
\* the same configuration packed and saved
QuantizedCheckpoint(a) ==
  pack_model(PretrainedModel,
             [n \in LinearNames |-> QuantizerEntry(a.wbits, a.groupsize, FALSE)],
             a)[1]

Append1(seq, x) == seq \o <<x>>

File(path, kind, types, body) ==
  [path |-> path, kind |-> kind, types |-> types, body |-> body]

\* ---------------------------------------------------------------- run()
LoadChoices == {PyNone, Str(""), Str("ckpt"), PosixPath("ckpt"), PosixPath("")}
ModelChoices == {PyNone, Str(""), Str("llama")}

ArgsChoices ==
  { a \in [load : LoadChoices, model : ModelChoices, tokenizer : {Str("")},
           wbits : WBitsChoices, groupsize : {GroupSize},
           nearest : BOOLEAN, pack_mode : PackModes, method : {"gptq"},
           observe : BOOLEAN, save : {Str(""), Str("out")},
           save_safetensors : {Str(""), Str("out.safetensors")},
           quant_directory : {PyNone, Str("qdir")},
           eval : BOOLEAN, export_onnx : {Str(""), Str("onnx")},
           use_plugin : BOOLEAN,
           mix_qlayer_conf : {Str(""), Str("mix.json")}] :
      \* a checkpoint is loaded with the bit-width it was packed with
      (a.load.t = "Path" \/ Truthy(a.load)) => a.wbits < 16 }

Init ==
  /\ args \in ArgsChoices
  /\ has_awq \in BOOLEAN
  /\ pc = "setup"
  /\ model = <<>>
  /\ device = "cpu"
  /\ tokenizer = <<>>
  /\ inputs_dataloader = <<>>
  /\ quantizers = <<>>
  /\ quant_info = <<>>
  /\ quant_config = <<>>
  /\ files = {}
  /\ warnings = 0
  /\ error = ""
  /\ trace = <<>>
  /\ handed = <<>>
  /\ orig = <<>>
  /\ source = ""

\* StageAfter with the SAVE block moved below the EVAL block
StageAfter_SaveBelowEval(stage) ==
  CASE stage = "setup" -> "load"
    [] stage = "load" -> "sample"
    [] stage = "sample" -> "calibrate"
    [] stage = "calibrate" -> "pack"
    [] stage = "pack" -> "table"
    [] stage = "table" -> "eval"
    [] stage = "eval" -> "save"
    [] stage = "save" -> "export"
    [] stage = "export" -> "serve"
    [] stage = "serve" -> "safetensors"
    [] stage = "safetensors" -> "done"

\* the statements of run() in program order: where control goes after a stage
StageAfter(stage) ==
  CASE stage = "setup" -> "load"
    [] stage = "load" -> "sample"
    [] stage = "sample" -> "calibrate"
    [] stage = "calibrate" -> "pack"
    [] stage = "pack" -> "table"
    [] stage = "table" -> "save"
    [] stage = "save" -> "eval"
    [] stage = "eval" -> "export"
    [] stage = "export" -> "serve"
    [] stage = "serve" -> "safetensors"
    [] stage = "safetensors" -> "done"

\* an exception leaves run()
Raise(name) == pc' = "raised" /\ error' = name

\* lines 145-149: normalise args.load and args.tokenizer
Setup ==
  /\ pc = "setup"
  /\ IF args.load.t = "NoneType"
     THEN /\ Raise("AttributeError")
          /\ UNCHANGED args
     ELSE LET a1 == IF args.load.t # "str"
                    THEN [args EXCEPT !.load = as_posix(args.load)]
                    ELSE args
              a2 == IF a1.tokenizer = Str("")
                    THEN [a1 EXCEPT !.tokenizer =
                            IF Truthy(a1.model) THEN a1.model ELSE a1.load]
                    ELSE a1
          IN  /\ args' = a2
              /\ pc' = StageAfter("setup")
              /\ UNCHANGED error
  /\ UNCHANGED <<has_awq, model, device, tokenizer, inputs_dataloader,
                 quantizers, quant_info, quant_config, files, warnings,
                 trace, handed, orig, source>>

\* lines 151-159: LOAD
Load ==
  /\ pc = "load"
  /\ IF Truthy(args.load)
     THEN /\ tokenizer' = <<args.load.v>>
          /\ source' = "quantized"
          /\ model' = QuantizedCheckpoint(args)
          /\ trace' = Append1(trace, "LOAD")
          /\ pc' = StageAfter("load")
          /\ UNCHANGED error
     ELSE IF Truthy(args.model)
     THEN /\ tokenizer' = <<args.model.v>>
          /\ source' = "pretrained"
          /\ model' = PretrainedModel
          /\ trace' = Append1(trace, "LOAD")
          /\ pc' = StageAfter("load")
          /\ UNCHANGED error
     ELSE /\ Raise("ValueError")
          /\ UNCHANGED <<tokenizer, model, trace, source>>
  /\ UNCHANGED <<args, has_awq, device, inputs_dataloader, quantizers,
                 quant_info, quant_config, files, warnings, handed, orig>>

\* line 161: calibration data sampling
Sample ==
  /\ pc = "sample"
  /\ inputs_dataloader' = <<"batches">>
  /\ trace' = Append1(trace, "SAMPLE")
  /\ pc' = StageAfter("sample")
  /\ UNCHANGED <<args, has_awq, model, device, tokenizer, quantizers,
                 quant_info, quant_config, files, warnings, error, handed,
                 orig, source>>

\* NeedsQuantization without the test of args.nearest
NeedsQuantization_IgnoresNearest(a) == ~Truthy(a.load) /\ a.wbits < 16

\* line 163: the condition under which run() quantizes
NeedsQuantization(a) == ~Truthy(a.load) /\ a.wbits < 16 /\ ~a.nearest

\* Calibrate with the failure of the quantizer caught and the run carried on
Calibrate_SwallowsFailure ==
  /\ pc = "calibrate"
  /\ IF NeedsQuantization(args)
     THEN LET a1 == [args EXCEPT !.mix_qlayer_conf =
                       IF Truthy(args.mix_qlayer_conf)
                       THEN Dict(MixConfFile) ELSE Dict({})]
          IN  /\ args' = a1
              /\ trace' = Append1(trace, "CALIBRATE")
              /\ \/ /\ \E qz \in QuantizerOutputs(a1) : quantizers' = <<qz>>
                    /\ pc' = StageAfter("calibrate")
                    /\ UNCHANGED error
                 \/ /\ error' = "CalibrationError"
                    /\ pc' = StageAfter("pack")
                    /\ UNCHANGED quantizers
     ELSE /\ pc' = StageAfter("pack")
          /\ UNCHANGED <<args, trace, quantizers, error>>
  /\ UNCHANGED <<has_awq, model, device, tokenizer, inputs_dataloader,
                 quant_info, quant_config, files, warnings, handed, orig, source>>

\* lines 163-169: CALIBRATE, or nothing when line 163 is false
Calibrate ==
  /\ pc = "calibrate"
  /\ IF NeedsQuantization(args)
     THEN LET a1 == [args EXCEPT !.mix_qlayer_conf =
                       IF Truthy(args.mix_qlayer_conf)
                       THEN Dict(MixConfFile) ELSE Dict({})]
          IN  /\ args' = a1
              /\ trace' = Append1(trace, "CALIBRATE")
              /\ \/ /\ \E qz \in QuantizerOutputs(a1) : quantizers' = <<qz>>
                    /\ pc' = StageAfter("calibrate")
                    /\ UNCHANGED error
                 \/ /\ Raise("CalibrationError")
                    /\ UNCHANGED quantizers
     ELSE /\ pc' = StageAfter("pack")
          /\ UNCHANGED <<args, trace, quantizers, error>>
  /\ UNCHANGED <<has_awq, model, device, tokenizer, inputs_dataloader,
                 quant_info, quant_config, files, warnings, handed, orig, source>>

\* lines 170-171: PACK
Pack ==
  /\ pc = "pack"
  /\ LET r == pack_model(model, quantizers[1], args)
     IN  /\ model' = r[1]
         /\ quantizers' = <<r[4]>>
         /\ IF r[5] = ""
            THEN /\ quant_info' = <<r[2]>>
                 /\ quant_config' = <<r[3]>>
                 /\ pc' = StageAfter("pack")
                 /\ UNCHANGED error
            ELSE /\ Raise(r[5])
                 /\ UNCHANGED <<quant_info, quant_config>>
  /\ trace' = Append1(trace, "PACK")
  /\ UNCHANGED <<args, has_awq, device, tokenizer, inputs_dataloader, files,
                 warnings, handed, orig, source>>

\* lines 173-174: the quantization-table export
Table ==
  /\ pc = "table"
  /\ IF args.quant_directory.t # "NoneType"
     THEN /\ trace' = Append1(trace, "TABLE")
          /\ IF quantizers = <<>>
             THEN /\ Raise("UnboundLocalError")
                  /\ UNCHANGED files
             ELSE /\ files' = files \cup
                       {File(args.quant_directory.v, "table", {}, "written")}
                  /\ pc' = StageAfter("table")
                  /\ UNCHANGED error
     ELSE /\ pc' = StageAfter("table")
          /\ UNCHANGED <<trace, files, error>>
  /\ UNCHANGED <<args, has_awq, model, device, tokenizer, inputs_dataloader,
                 quantizers, quant_info, quant_config, warnings, handed, orig, source>>

\* line 176 and line 193: persistence is gated by observe and by its own flag
MaySave(a, flag) == ~a.observe /\ Truthy(flag)

\* lines 176-181: SAVE
Save ==
  /\ pc = "save"
  /\ IF MaySave(args, args.save)
     THEN LET saved == files \cup
                 {File(args.save.v, "weights", PackedTypes(model), "written"),
                  File(args.save.v, "tokenizer", {}, "written")}
          IN  /\ trace' = Append1(trace, "SAVE")
              /\ IF quant_info = <<>>
                 THEN \* open(.., 'w') has created the file when json.dumps
                      \* reads the unbound local
                      /\ files' = saved \cup
                           {File(args.save.v \o "/quant.op.json", "json", {}, "empty")}
                      /\ Raise("UnboundLocalError")
                 ELSE /\ files' = saved \cup
                           {File(args.save.v \o "/quant.op.json", "json", {}, "written"),
                            File(args.save.v \o "/quant_config.json", "json", {}, "written")}
                      /\ pc' = StageAfter("save")
                      /\ UNCHANGED error
     ELSE /\ pc' = StageAfter("save")
          /\ UNCHANGED <<trace, files, error>>
  /\ UNCHANGED <<args, has_awq, model, device, tokenizer, inputs_dataloader,
                 quantizers, quant_info, quant_config, warnings, handed, orig, source>>

\* NeedsFallback without the probe of the AWQ inference engine
NeedsFallback_IgnoresEngine(a, awq) == a.pack_mode = "GEMM"

\* line 57: the condition under which eval_model falls back to GPTQ packing
NeedsFallback(a, awq) == ~awq /\ a.pack_mode = "GEMM"

\* lines 183-184 and eval_model (lines 52-68): EVAL
Eval ==
  /\ pc = "eval"
  /\ IF args.eval
     THEN /\ trace' = Append1(trace, "EVAL")
          /\ IF NeedsFallback(args, has_awq)
             THEN /\ warnings' = warnings + 1
                  /\ model' = repack_to_new_mode(model, args, "GPTQ")
             ELSE UNCHANGED <<warnings, model>>
          /\ \/ \* generate returns: the model goes back to the host
                /\ device' = "cpu"
                /\ pc' = StageAfter("eval")
                /\ UNCHANGED error
             \/ \* the tokenizer call or generate raises after model.to(dev)
                /\ device' = DEV
                /\ Raise("GenerationError")
     ELSE /\ pc' = StageAfter("eval")
          /\ UNCHANGED <<trace, warnings, model, device, error>>
  /\ UNCHANGED <<args, has_awq, tokenizer, inputs_dataloader, quantizers,
                 quant_info, quant_config, files, handed, orig, source>>

\* lines 186-187 and export_onnx (lines 114-136): EXPORT
Export ==
  /\ pc = "export"
  /\ IF Truthy(args.export_onnx)
     THEN LET m1 == IF args.pack_mode # "ORT"
                    THEN repack_to_new_mode(model, args, "ORT")
                    ELSE model
          IN  /\ model' = m1
              /\ handed' = <<m1>>
              /\ files' = files \cup
                   {File(args.export_onnx.v, "onnx", PackedTypes(m1), "written"),
                    File(args.export_onnx.v, "tokenizer", {}, "written")}
              /\ trace' = Append1(trace, "EXPORT")
     ELSE UNCHANGED <<model, handed, files, trace>>
  /\ pc' = StageAfter("export")
  /\ UNCHANGED <<args, has_awq, device, tokenizer, inputs_dataloader,
                 quantizers, quant_info, quant_config, warnings, error, orig, source>>

\* lines 189-191: SERVE
Serve ==
  /\ pc = "serve"
  /\ trace' = IF args.use_plugin THEN Append1(trace, "SERVE") ELSE trace
  /\ pc' = StageAfter("serve")
  /\ UNCHANGED <<args, has_awq, model, device, tokenizer, inputs_dataloader,
                 quantizers, quant_info, quant_config, files, warnings, error,
                 handed, orig, source>>

\* lines 193-197: the safetensors file
SaveSafetensors ==
  /\ pc = "safetensors"
  /\ IF MaySave(args, args.save_safetensors)
     THEN /\ files' = files \cup
               {File(args.save_safetensors.v, "weights", PackedTypes(model), "written")}
          /\ trace' = Append1(trace, "SAFETENSORS")
     ELSE UNCHANGED <<files, trace>>
  /\ pc' = StageAfter("safetensors")
  /\ UNCHANGED <<args, has_awq, model, device, tokenizer, inputs_dataloader,
                 quantizers, quant_info, quant_config, warnings, error, handed,
                 orig, source>>

Next ==
  \/ Setup
  \/ Load
  \/ Sample
  \/ Calibrate
  \/ Pack
  \/ Table
  \/ Save
  \/ Eval
  \/ Export
  \/ Serve
  \/ SaveSafetensors

Spec == Init /\ [][Next]_vars

\* ---------------------------------------------------------------- round trip
\* A harness for the round-trip property of repack_to_new_mode: pack a fresh
\* toy graph, repack it to a second mode, repack it back, with or without the
\* caller naming the mode the layers are in before the second repack.
RoundTripArgs ==
  { [a EXCEPT !.mix_qlayer_conf = c] :
      a \in { b \in ArgsChoices :
                /\ b.load = Str("") /\ b.model = Str("llama") /\ b.wbits < 16
                /\ ~b.nearest /\ ~b.observe /\ ~b.eval /\ ~b.use_plugin
                /\ b.save = Str("") /\ b.save_safetensors = Str("")
                /\ b.quant_directory = PyNone /\ b.export_onnx = Str("")
                /\ b.mix_qlayer_conf = Str("") },
      c \in {Dict({}), Dict(MixConfFile)} }

InitRoundTrip ==
  /\ args \in RoundTripArgs
  /\ has_awq = FALSE
  /\ pc = "rt_pack"
  /\ model = PretrainedModel
  /\ device = "cpu"
  /\ tokenizer = <<>>
  /\ inputs_dataloader = <<>>
  /\ \E qz \in QuantizerOutputs(args) : quantizers = <<qz>>
  /\ quant_info = <<>>
  /\ quant_config = <<>>
  /\ files = {}
  /\ warnings = 0
  /\ error = ""
  /\ trace = <<>>
  /\ handed = <<>>
  /\ orig = <<>>
  /\ source = "pretrained"

RT_Pack ==
  /\ pc = "rt_pack"
  /\ LET r == pack_model(model, quantizers[1], args)
     IN  /\ model' = r[1]
         /\ orig' = <<r[1]>>
         /\ quant_info' = <<r[2]>>
         /\ quant_config' = <<r[3]>>
         /\ quantizers' = <<r[4]>>
  /\ pc' = "rt_forth"
  /\ UNCHANGED <<args, has_awq, device, tokenizer, inputs_dataloader, files,
                 warnings, error, trace, handed, source>>

\* repack_to_new_mode(model, args, mode2)
RT_Forth ==
  /\ pc = "rt_forth"
  /\ \E mode2 \in PackModes \ {args.pack_mode} :
       model' = repack_to_new_mode(model, args, mode2)
  /\ pc' = "rt_between"
  /\ UNCHANGED <<args, has_awq, device, tokenizer, inputs_dataloader,
                 quantizers, quant_info, quant_config, files, warnings, error,
                 trace, handed, orig, source>>

\* the caller names the old mode of the second repack, the mode the layers are
\* in now, the only way the code offers: through args.pack_mode
RT_NameOldMode ==
  /\ pc = "rt_between"
  /\ \E mode2 \in PackedTypes(model) : args' = [args EXCEPT !.pack_mode = mode2]
  /\ pc' = "rt_back"
  /\ UNCHANGED <<has_awq, model, device, tokenizer, inputs_dataloader,
                 quantizers, quant_info, quant_config, files, warnings, error,
                 trace, handed, orig, source>>

\* repack_to_new_mode(model, args, mode1), on the args object as it is
RT_Back ==
  /\ pc \in {"rt_between", "rt_back"}
  /\ model' = repack_to_new_mode(model, args, quant_config[1].version)
  /\ pc' = "rt_done"
  /\ UNCHANGED <<args, has_awq, device, tokenizer, inputs_dataloader,
                 quantizers, quant_info, quant_config, files, warnings, error,
                 trace, handed, orig, source>>

NextRoundTrip ==
  \/ RT_Pack
  \/ RT_Forth
  \/ RT_NameOldMode
  \/ RT_Back

SpecRoundTrip == InitRoundTrip /\ [][NextRoundTrip]_vars

\* ---------------------------------------------------------------- properties
Stages(tr) == {tr[i] : i \in 1..Len(tr)}

\* the fields of args that name a source are absent: None or the empty string
Absent(x) == x.t = "NoneType" \/ (x.t = "str" /\ x.v = "")

\* the buffers of a packed layer
Buffers(l) == <<l.qweight, l.scales, l.zeros, l.g_idx>>

\* position of a stage in the order in which run() lays the stages out
Rank(stage) ==
  CASE stage = "LOAD" -> 1
    [] stage = "SAMPLE" -> 2
    [] stage = "CALIBRATE" -> 3
    [] stage = "PACK" -> 4
    [] stage = "TABLE" -> 5
    [] stage = "SAVE" -> 6
    [] stage = "EVAL" -> 7
    [] stage = "EXPORT" -> 8
    [] stage = "SERVE" -> 9
    [] stage = "SAFETENSORS" -> 10

\* C1: when run() hands the model to the external exporter, every packed layer
\* of the graph is in the export-required pack mode ORT.
C1_ExportedInOrtMode ==
  handed # <<>> =>
    \A n \in PackedNames(handed[1]) : handed[1][n].type = "ORT"

\* C2 (as stated): the stages run in the order LOAD, CALIBRATE, PACK, SAVE,
\* EVAL, EXPORT, SERVE, each at most once, and the model is not persisted
\* after EVAL, EXPORT or SERVE.
C2_NoPersistenceAfterEval ==
  \A i, j \in 1..Len(trace) :
    i < j =>
      /\ Rank(trace[i]) < Rank(trace[j])
      /\ trace[i] \in {"EVAL", "EXPORT", "SERVE"}
           => trace[j] \notin {"SAVE", "SAFETENSORS"}

\* C2 (amended): the stages that run do so in the order LOAD, calibration data
\* sampling, CALIBRATE, PACK, quantization-table export, SAVE, EVAL, EXPORT,
\* SERVE, safetensors write: each at most once and none after a stage that
\* follows it; the directory SAVE never comes after EVAL, EXPORT or SERVE,
\* the safetensors file is written after them.
C2_StageOrder ==
  \A i, j \in 1..Len(trace) :
    i < j =>
      /\ Rank(trace[i]) < Rank(trace[j])
      /\ trace[i] \in {"EVAL", "EXPORT", "SERVE"} => trace[j] # "SAVE"
      /\ trace[i] = "SAFETENSORS" => FALSE

C2_Witness ==
  /\ pc = "done"
  /\ {"CALIBRATE", "PACK", "SAVE", "EVAL", "EXPORT", "SERVE", "SAFETENSORS"}
       \subseteq Stages(trace)

\* C3: in a run with observe set nothing is written to the filesystem.
C3_ObserveWritesNothing == args.observe => files = {}

\* C4: when save is set and observe is not, the SAVE stage writes the weights,
\* the tokenizer, quant.op.json and quant_config.json and does not fail.
C4_SaveWritesAllFour ==
  ("SAVE" \in Stages(trace)) =>
    /\ {File(args.save.v, "weights", types, "written") : types \in SUBSET PackModes}
         \cap files # {}
    /\ File(args.save.v, "tokenizer", {}, "written") \in files
    /\ File(args.save.v \o "/quant.op.json", "json", {}, "written") \in files
    /\ File(args.save.v \o "/quant_config.json", "json", {}, "written") \in files
    /\ pc # "save"

\* C5: when neither a model nor a checkpoint is named (None or empty), run()
\* fails with the configuration error (ValueError) before a model is loaded
\* and before any later stage runs.
C5_NeitherSourceIsConfigError ==
  (Absent(args.load) /\ Absent(args.model)) =>
    /\ trace = <<>>
    /\ model = <<>>
    /\ pc \in {"setup", "load", "raised"}
    /\ pc = "raised" => error = "ValueError"

\* C6: CALIBRATE runs if and only if the model was loaded fresh, the bit-width
\* is below 16 and nearest-rounding-only mode is off; when it returns, PACK
\* follows immediately, on the parameters it returned.
C6_CalibrateIffFreshLowBitNotNearest ==
  /\ ("SAMPLE" \in Stages(trace) /\ pc # "calibrate") =>
       ("CALIBRATE" \in Stages(trace)
          <=> (source = "pretrained" /\ args.wbits < 16 /\ ~args.nearest))
  /\ \A i \in 1..Len(trace) :
       trace[i] = "CALIBRATE" =>
         IF i = Len(trace)
         THEN \/ pc = "pack" /\ quantizers # <<>>
              \/ pc = "raised" /\ error = "CalibrationError"
         ELSE trace[i + 1] = "PACK"
  /\ (pc = "table" /\ "PACK" \in Stages(trace)) =>
       /\ PackedNames(model) = DOMAIN quantizers[1]
       /\ \A n \in DOMAIN quantizers[1] :
            /\ model[n].type = args.pack_mode
            /\ model[n].bits = quant_info[1][n].wbits
            /\ model[n].groupsize = quant_info[1][n].groupsize

C6_Witness ==
  /\ pc = "table"
  /\ trace = <<"LOAD", "SAMPLE", "CALIBRATE", "PACK">>
  /\ PackedNames(model) = LinearNames

\* C7: in nearest-rounding-only mode with a fresh model and a bit-width below
\* 16 the run skips CALIBRATE but still runs PACK, so the graph holds packed
\* layers when SAVE, EVAL or EXPORT run.
C7_NearestStillPacks ==
  (source = "pretrained" /\ args.wbits < 16 /\ args.nearest
     /\ pc \in {"save", "eval", "export"}) =>
    /\ "CALIBRATE" \notin Stages(trace)
    /\ "PACK" \in Stages(trace)
    /\ PackedNames(model) # {}

\* C8: when the inference engine of the configured pack mode is missing, EVAL
\* repacks every packed layer to the fallback mode before generation, warns
\* exactly once and does not raise on account of the missing engine; when the
\* engine is there, EVAL neither repacks nor warns.
C8_EvalFallback ==
  [][ (pc = "eval" /\ args.eval) =>
        /\ IF ~has_awq /\ args.pack_mode = "GEMM"
           THEN /\ warnings = 0 /\ warnings' = 1
                /\ PackedNames(model') = PackedNames(model)
                /\ \A n \in PackedNames(model) : model'[n].type = "GPTQ"
           ELSE /\ warnings' = 0
                /\ model' = model
        /\ pc' = "raised" => error' = "GenerationError" ]_vars

C8_Witness ==
  /\ pc = "export"
  /\ "EVAL" \in Stages(trace)
  /\ ~has_awq /\ args.pack_mode = "GEMM"
  /\ warnings = 1
  /\ PackedNames(model) = LinearNames
  /\ \A n \in PackedNames(model) : model[n].type = "GPTQ"

\* repack_to_new_mode as the spec words it: every layer of the old mode is
\* replaced by a layer of the new mode with the same bits, group size, shape
\* and bias presence
SameShape(l1, l2) ==
  /\ l2.bits = l1.bits
  /\ l2.groupsize = l1.groupsize
  /\ l2.infeatures = l1.infeatures
  /\ l2.outfeatures = l1.outfeatures
  /\ (l2.bias # "None") = (l1.bias # "None")

Repacked(m1, m2, old_mode, new_mode) ==
  \A n \in DOMAIN m1 :
    m1[n].type = old_mode =>
      m2[n].type = new_mode /\ SameShape(m1[n], m2[n])

\* C9: repack_to_new_mode replaces every packed layer of the old mode by a
\* new-mode layer at the same name with identical bits, group_size,
\* in_features, out_features and bias presence, also for mixed-bit models.
C9_RepackKeepsLayerShape ==
  [][ /\ (pc = "eval" /\ args.eval /\ ~has_awq /\ args.pack_mode = "GEMM")
           => Repacked(model, model', "GEMM", "GPTQ")
      /\ (pc = "export" /\ Truthy(args.export_onnx) /\ args.pack_mode # "ORT")
           => Repacked(model, model', args.pack_mode, "ORT") ]_vars

\* C10: repacking mode1 -> mode2 and then mode2 -> mode1 reproduces the
\* integer codes, scales, zero points and group index mapping of every layer.
C10_RoundTripRestoresBuffers ==
  pc = "rt_done" =>
    \A n \in PackedNames(orig[1]) :
      /\ model[n].type = orig[1][n].type
      /\ Buffers(model[n]) = Buffers(orig[1][n])

\* C11: after pack_model returns, the graph holds a packed layer of the
\* configured pack mode at exactly the names that are keys of quant_params,
\* and every other layer is what it was before the call.
C11_PackReplacesExactlyTheKeys ==
  [][ pc = "pack" =>
        /\ PackedNames(model') = DOMAIN quantizers[1]
        /\ \A n \in DOMAIN quantizers[1] :
             /\ model'[n].type = args.pack_mode
             /\ model'[n].qweight # <<>>
        /\ DOMAIN model' = DOMAIN model
        /\ \A n \in DOMAIN model \ DOMAIN quantizers[1] : model'[n] = model[n] ]_vars

C11_Witness ==
  /\ pc = "table"
  /\ "PACK" \in Stages(trace)
  /\ DOMAIN quantizers[1] = {"fc1"}
  /\ model["fc1"].type = args.pack_mode
  /\ model["fc2"] = PretrainedModel["fc2"]
  /\ args.pack_mode # "GPTQ"

\* C12: on every exit path of EVAL, also when tokenization or generation
\* raises after the model was moved to the accelerator, the model is back on
\* the host.
C12_EvalLeavesModelOnHost ==
  ("EVAL" \in Stages(trace) /\ pc # "eval") => device = "cpu"

\* C13: if calibration fails the run aborts: PACK does not run on partial
\* results, none of SAVE, EVAL, EXPORT, SERVE runs afterwards and nothing is
\* persisted.
C13_CalibrationFailureAborts ==
  error = "CalibrationError" =>
    /\ pc = "raised"
    /\ trace = <<"LOAD", "SAMPLE", "CALIBRATE">>
    /\ PackedNames(model) = {}
    /\ quantizers = <<>> /\ quant_info = <<>> /\ quant_config = <<>>
    /\ files = {}
    /\ handed = <<>>

C13_Witness ==
  /\ error = "CalibrationError"
  /\ pc = "raised"
  /\ ~args.observe /\ Truthy(args.save) /\ Truthy(args.save_safetensors)
  /\ args.quant_directory # PyNone
  /\ args.eval /\ Truthy(args.export_onnx) /\ args.use_plugin

\* C14: every weights artifact a run persists (the save directory, the
\* safetensors file) holds packed layers in the pack mode recorded as the
\* quant_config version, args.pack_mode.
C14_WeightsWrittenInRecordedMode ==
  \A f \in files : f.kind = "weights" => f.types \subseteq {args.pack_mode}

\* C15: the quantization-table export only executes after CALIBRATE produced
\* the quantization parameters; run() never reads them before.
C15_TableOnlyAfterCalibrate ==
  "TABLE" \in Stages(trace) =>
    /\ "CALIBRATE" \in Stages(trace)
    /\ quantizers # <<>>

\* C16: pack_model leaves the quant_params mapping as the
\* quantizer returned it: same keys, and every entry still the tuple of
\* quantizer, scale, zero point, group index map, bit-width and group size.
C16_PackKeepsQuantParams ==
  (pc = "table" /\ "PACK" \in Stages(trace)) =>
    \A n \in DOMAIN quantizers[1] :
      /\ Len(quantizers[1][n]) = 6
      /\ quantizers[1][n][5] = quant_info[1][n].wbits
      /\ quantizers[1][n][6] = quant_info[1][n].groupsize

====
